---------------------------- MODULE Spec2Model ----------------------------
(***************************************************************************)
(* A model of the 6502 CPU core of NES-emu: the register file, the flat    *)
(* memory with its little-endian helpers, load/reset, the addressing-mode  *)
(* resolver and the instruction handlers.                                  *)
(*                                                                         *)
(* Numbers keep the width the Rust code gives them: u8 arithmetic is       *)
(* reduced modulo 256, u16 arithmetic modulo 65536, and an operation that  *)
(* panics in Rust (an index past the end of the backing array, todo!(),    *)
(* panic!()) yields an aborted call instead of a value.                    *)
(*                                                                         *)
(* memory is the array [u8; 0xFFFF] of CPU.rs.  It is held sparsely: a     *)
(* function from the addresses whose byte is non-zero to that byte; every  *)
(* other index below MemSize holds 0, as after  memory: [0; 0xFFFF].  A    *)
(* long run of one repeated byte is held as a single entry, see Fill.      *)
(***************************************************************************)
EXTENDS Integers, Sequences, FiniteSets, TLC

VARIABLES
    register_a,       \* CPU.register_a: u8
    register_x,       \* CPU.register_x: u8
    register_y,       \* CPU.register_y: u8
    status,           \* CPU.status: the packed flag byte
    program_counter,  \* CPU.program_counter: u16
    memory,           \* CPU.memory: [u8; 0xFFFF], sparse
    ctl,              \* "ready": no call made yet; "done": the call returned;
                      \* "panic": the call aborted; "running": inside the
                      \* loop of run(); "halted": run() returned
    op,               \* the call that was made: its name, mode, argument, result
    pre,              \* the CPU as it was when the call was made
    frame             \* the load_and_run call in progress: the CPU it was
                      \* made on and the program it was given

vars == <<register_a, register_x, register_y, status, program_counter,
          memory, ctl, op, pre, frame>>

-----------------------------------------------------------------------------
(* Widths and fixed addresses *)

Byte == 0..255

U8 == 256

U16 == 65536

MemSize == 65535

RomBase == 32768

ResetVector == 65532

\* The value an aborted read or address computation yields.
PANIC == -1

-----------------------------------------------------------------------------
(* Bitwise operators on naturals of a given width *)

RECURSIVE AndBits(_, _, _)
AndBits(a, b, n) ==
    IF n = 0 THEN 0
    ELSE ((a % 2) * (b % 2)) + (2 * AndBits(a \div 2, b \div 2, n - 1))

RECURSIVE OrBits(_, _, _)
OrBits(a, b, n) ==
    IF n = 0 THEN 0
    ELSE (IF (a % 2) + (b % 2) > 0 THEN 1 ELSE 0)
         + (2 * OrBits(a \div 2, b \div 2, n - 1))

RECURSIVE XorBits(_, _, _)
XorBits(a, b, n) ==
    IF n = 0 THEN 0
    ELSE (((a % 2) + (b % 2)) % 2) + (2 * XorBits(a \div 2, b \div 2, n - 1))

And8(a, b) == AndBits(a, b, 8)

Or8(a, b) == OrBits(a, b, 8)

Xor8(a, b) == XorBits(a, b, 8)

\* v >> n and v << n on a u8 (the shifted-out bits are lost)
Shr8(v, n) == v \div (2 ^ n)

Shl8(v, n) == (v * (2 ^ n)) % U8

\* a u8 read as i8
Signed8(v) == IF v >= 128 THEN v - U8 ELSE v

-----------------------------------------------------------------------------
(* CPUFlags: the named bits of the status byte *)

CARRY == 1

ZERO == 2

INTERRUPT_DISABLE == 4

DECIMAL_MODE == 8

BREAK == 16

BREAK2 == 32

OVERFLOW == 64

NEGATIV == 128

\* bitflags: status.contains(flag)
Contains(st, flag) == And8(st, flag) = flag

\* bitflags: status.insert(flag)
Insert(st, flag) == Or8(st, flag)

\* bitflags: status.remove(flag)
Remove(st, flag) == And8(st, (U8 - 1) - flag)

\* bitflags: status.set(flag, value)
SetFlag(st, flag, value) == IF value THEN Insert(st, flag) ELSE Remove(st, flag)

-----------------------------------------------------------------------------
(* The CPU as a value *)

Cpu ==
    [memory |-> memory, panicked |-> FALSE,
     program_counter |-> program_counter, register_a |-> register_a,
     register_x |-> register_x, register_y |-> register_y,
     status |-> status]

\* CPU::new()
new ==
    [memory |-> << >>, panicked |-> FALSE, program_counter |-> 0,
     register_a |-> 0, register_x |-> 0, register_y |-> 0, status |-> 0]

Abort(c) == [c EXCEPT !.panicked = TRUE]

-----------------------------------------------------------------------------
(* Memory *)

\* self.memory[i] for an index inside the array
\* A run of equal bytes is held as one entry <<lo, hi, byte>> under the key
\* FillKey, which is no index of the array: the indices lo..hi without an
\* entry of their own hold byte.
FillKey == U16

Fill(m, i) ==
    IF FillKey \in DOMAIN m /\ m[FillKey][1] <= i /\ i <= m[FillKey][2]
    THEN m[FillKey][3]
    ELSE 0

At(m, i) == IF i \in DOMAIN m THEN m[i] ELSE Fill(m, i)

\* self.memory[i] = v for an index inside the array
Store(m, i, v) ==
    IF v = Fill(m, i) THEN [x \in DOMAIN m \ {i} |-> m[x]]
    ELSE [x \in DOMAIN m \cup {i} |-> IF x = i THEN v ELSE m[x]]

\* mem_read: the byte, or PANIC when the index is past the array's end
mem_read(c, addr) == IF addr >= MemSize THEN PANIC ELSE At(c.memory, addr)

\* mem_write
mem_write(c, addr, data) ==
    IF addr >= MemSize THEN Abort(c)
    ELSE [c EXCEPT !.memory = Store(c.memory, addr, data)]

\* mem_read_u16.  pos + 1 cannot overflow: for pos = 0xFFFF the read of the
\* low byte has already aborted.
mem_read_u16(c, pos) ==
    LET lo == mem_read(c, pos)
        hi == IF lo = PANIC THEN PANIC ELSE mem_read(c, pos + 1)
    IN  IF lo = PANIC \/ hi = PANIC THEN PANIC ELSE (hi * U8) + lo

\* mem_write_u16: the low byte stays written when the high byte's write aborts
mem_write_u16(c, pos, data) ==
    LET hi == data \div U8
        lo == data % U8
        c1 == mem_write(c, pos, lo)
    IN  IF c1.panicked THEN c1 ELSE mem_write(c1, pos + 1, hi)

-----------------------------------------------------------------------------
(* load and reset (CPU.rs) *)

\* A program (Vec<u8>) is held like memory: its length and its non-zero bytes.
ProgAt(program, i) == At(program.data, i)

\* self.memory[0x8000..(0x8000 + len)].copy_from_slice(&program[..])
CopyFromSlice(m, program) ==
    LET dst  == RomBase..(RomBase + program.len - 1)
        src  == {RomBase + i : i \in DOMAIN program.data \ {FillKey}}
        old  == IF FillKey \in DOMAIN m
                THEN (m[FillKey][1])..(m[FillKey][2]) ELSE {}
        run  == IF FillKey \in DOMAIN program.data
                THEN FillKey :> <<RomBase + program.data[FillKey][1],
                                  RomBase + program.data[FillKey][2],
                                  program.data[FillKey][3]>>
                ELSE << >>
        val(x) == IF x \in dst THEN ProgAt(program, x - RomBase)
                  ELSE At(m, x)
        cells == {x \in ((DOMAIN m \ {FillKey}) \cup old) \cup src :
                      val(x) # Fill(run, x)}
    IN  [x \in cells |-> val(x)] @@ run

\* load writing the reset vector before it copies the program
load_Mutant(c, program) ==
    IF RomBase + program.len > MemSize THEN Abort(c)
    ELSE LET c1 == mem_write_u16(c, ResetVector, RomBase)
         IN  [c1 EXCEPT !.memory = CopyFromSlice(c1.memory, program)]

\* load: the slice's end is checked against the array's length before any
\* byte is copied
load(c, program) ==
    IF RomBase + program.len > MemSize THEN Abort(c)
    ELSE mem_write_u16([c EXCEPT !.memory = CopyFromSlice(c.memory, program)],
                       ResetVector, RomBase)

\* reset with  self.register_x = 0  left out
reset_Mutant(c) ==
    LET vec == mem_read_u16(c, ResetVector)
        c1  == [c EXCEPT !.register_a = 0, !.status = 0]
    IN  IF vec = PANIC THEN Abort(c1)
        ELSE [c1 EXCEPT !.program_counter = vec]

\* reset
reset(c) ==
    LET vec == mem_read_u16(c, ResetVector)
        c1  == [c EXCEPT !.register_a = 0, !.register_x = 0, !.status = 0]
    IN  IF vec = PANIC THEN Abort(c1)
        ELSE [c1 EXCEPT !.program_counter = vec]

-----------------------------------------------------------------------------
(* update_zero_and_negative_flags *)

\* CPU.rs: on the packed status byte
update_zero_and_negative_flags_packed(st, result) ==
    LET s1 == IF result = 0 THEN Or8(st, 2) ELSE And8(st, 253)
    IN  IF And8(result, 128) # 0 THEN Or8(s1, 128) ELSE And8(s1, 127)

\* update_zero_and_negative_flags that inserts the flags and never removes them
update_zero_and_negative_flags_Mutant(st, result) ==
    LET s1 == IF result = 0 THEN Insert(st, ZERO) ELSE st
    IN  IF Shr8(result, 7) = 1 THEN Insert(s1, NEGATIV) ELSE s1

\* instructions.rs: on CPUFlags
update_zero_and_negative_flags(st, result) ==
    SetFlag(SetFlag(st, ZERO, result = 0), NEGATIV, Shr8(result, 7) = 1)

-----------------------------------------------------------------------------
(* Addressing modes (addressing_modes.rs) *)

MemoryModes ==
    {"Immediate", "ZeroPage", "ZeroPage_X", "ZeroPage_Y", "Absolute",
     "Absolute_X", "Absolute_Y", "Indirect_X", "Indirect_Y"}

AddressingMode == MemoryModes \cup {"NoneAddressing"}

\* u8 addition that keeps the ninth bit
wrapping_add8_Mutant(a, b) == a + b

\* u16 addition that keeps the seventeenth bit
wrapping_add16_Mutant(a, b) == a + b

\* u8::wrapping_add and u16::wrapping_add
wrapping_add8(a, b) == (a + b) % U8

wrapping_add16(a, b) == (a + b) % U16

\* get_operand_address reading the high byte of the Indirect_X pointer at
\* ptr + 1 without the wrap inside the zero page
get_operand_address_Mutant(c, mode) ==
    LET pc == c.program_counter
        b  == mem_read(c, pc)
        w  == mem_read_u16(c, pc)
    IN  CASE mode = "Immediate" -> pc
          [] mode = "ZeroPage" -> b
          [] mode = "ZeroPage_X" ->
                IF b = PANIC THEN PANIC ELSE wrapping_add8(b, c.register_x)
          [] mode = "ZeroPage_Y" ->
                IF b = PANIC THEN PANIC ELSE wrapping_add8(b, c.register_y)
          [] mode = "Absolute" -> w
          [] mode = "Absolute_X" ->
                IF w = PANIC THEN PANIC ELSE wrapping_add16(w, c.register_x)
          [] mode = "Absolute_Y" ->
                IF w = PANIC THEN PANIC ELSE wrapping_add16(w, c.register_y)
          [] mode = "Indirect_X" ->
                IF b = PANIC THEN PANIC
                ELSE LET ptr == wrapping_add8(b, c.register_x)
                         lo  == mem_read(c, ptr)
                         hi  == mem_read(c, ptr + 1)
                     IN  (hi * U8) + lo
          [] mode = "Indirect_Y" ->
                IF b = PANIC THEN PANIC
                ELSE LET lo == mem_read(c, b)
                         hi == mem_read(c, wrapping_add8(b, 1))
                     IN  wrapping_add16((hi * U8) + lo, c.register_y)
          [] mode = "NoneAddressing" -> PANIC

\* get_operand_address: the address, or PANIC
get_operand_address(c, mode) ==
    LET pc == c.program_counter
        b  == mem_read(c, pc)
        w  == mem_read_u16(c, pc)
    IN  CASE mode = "Immediate" -> pc
          [] mode = "ZeroPage" -> b
          [] mode = "ZeroPage_X" ->
                IF b = PANIC THEN PANIC ELSE wrapping_add8(b, c.register_x)
          [] mode = "ZeroPage_Y" ->
                IF b = PANIC THEN PANIC ELSE wrapping_add8(b, c.register_y)
          [] mode = "Absolute" -> w
          [] mode = "Absolute_X" ->
                IF w = PANIC THEN PANIC ELSE wrapping_add16(w, c.register_x)
          [] mode = "Absolute_Y" ->
                IF w = PANIC THEN PANIC ELSE wrapping_add16(w, c.register_y)
          [] mode = "Indirect_X" ->
                IF b = PANIC THEN PANIC
                ELSE LET ptr == wrapping_add8(b, c.register_x)
                         lo  == mem_read(c, ptr)
                         hi  == mem_read(c, wrapping_add8(ptr, 1))
                     IN  (hi * U8) + lo
          [] mode = "Indirect_Y" ->
                IF b = PANIC THEN PANIC
                ELSE LET lo == mem_read(c, b)
                         hi == mem_read(c, wrapping_add8(b, 1))
                     IN  wrapping_add16((hi * U8) + lo, c.register_y)
          [] mode = "NoneAddressing" -> PANIC

\* let addr = self.get_operand_address(mode); let value = self.mem_read(addr);
operand(c, mode) ==
    LET addr == get_operand_address(c, mode)
    IN  IF addr = PANIC THEN PANIC ELSE mem_read(c, addr)

-----------------------------------------------------------------------------
(* Instruction handlers (instructions.rs), as functions of the CPU *)

\* update_overflow_flag comparing the addends with each other:
\* (arg1 ^ arg2) & (arg1 ^ result) & 0x80
update_overflow_flag_Mutant(st, arg1, arg2, result) ==
    SetFlag(st, OVERFLOW,
            And8(And8(Xor8(arg1, arg2), Xor8(arg1, result)), 128) # 0)

\* update_overflow_flag
update_overflow_flag(st, arg1, arg2, result) ==
    SetFlag(st, OVERFLOW,
            And8(And8(Xor8(arg1, result), Xor8(arg2, result)), 128) # 0)

\* add_to_reg_a without the carry-in:  arg + register_a  only
add_to_reg_a_Mutant(c, arg) ==
    LET bigres == arg + c.register_a
        s1     == SetFlag(c.status, CARRY, bigres > 255)
        res    == bigres % U8
        s2     == update_overflow_flag(s1, c.register_a, arg, res)
        s3     == update_zero_and_negative_flags(s2, res)
    IN  [c EXCEPT !.status = s3, !.register_a = res]

\* add_to_reg_a
add_to_reg_a(c, arg) ==
    LET carry  == IF Contains(c.status, CARRY) THEN 1 ELSE 0
        bigres == arg + c.register_a + carry
        s1     == SetFlag(c.status, CARRY, bigres > 255)
        res    == bigres % U8
        s2     == update_overflow_flag(s1, c.register_a, arg, res)
        s3     == update_zero_and_negative_flags(s2, res)
    IN  [c EXCEPT !.status = s3, !.register_a = res]

\* adc
adc(c, mode) ==
    LET value == operand(c, mode)
    IN  IF value = PANIC THEN Abort(c) ELSE add_to_reg_a(c, value)

\* and
and(c, mode) ==
    LET value == operand(c, mode)
        res   == And8(value, c.register_a)
    IN  IF value = PANIC THEN Abort(c)
        ELSE [c EXCEPT !.register_a = res,
                       !.status = update_zero_and_negative_flags(c.status, res)]

\* bit_shift_left_and_set_flags building the status from no flags at all
bit_shift_left_and_set_flags_Mutant(st, value) ==
    LET s1  == SetFlag(0, CARRY, Shr8(value, 7) = 1)
        res == Shl8(value, 1)
    IN  [res |-> res, status |-> update_zero_and_negative_flags(s1, res)]

\* bit_shift_left_and_set_flags: the new status and the shifted byte
bit_shift_left_and_set_flags(st, value) ==
    LET s1  == SetFlag(st, CARRY, Shr8(value, 7) = 1)
        res == Shl8(value, 1)
    IN  [res |-> res, status |-> update_zero_and_negative_flags(s1, res)]

\* asl keeping the shifted byte in register_a in every mode
asl_Mutant(c, mode) ==
    IF mode = "NoneAddressing"
    THEN LET r == bit_shift_left_and_set_flags(c.status, c.register_a)
         IN  [c EXCEPT !.status = r.status, !.register_a = r.res]
    ELSE LET addr == get_operand_address(c, mode)
             val  == IF addr = PANIC THEN PANIC ELSE mem_read(c, addr)
         IN  IF val = PANIC THEN Abort(c)
             ELSE LET r == bit_shift_left_and_set_flags(c.status, val)
                  IN  [c EXCEPT !.status = r.status, !.register_a = r.res]

\* asl
asl(c, mode) ==
    IF mode = "NoneAddressing"
    THEN LET r == bit_shift_left_and_set_flags(c.status, c.register_a)
         IN  [c EXCEPT !.status = r.status, !.register_a = r.res]
    ELSE LET addr == get_operand_address(c, mode)
             val  == IF addr = PANIC THEN PANIC ELSE mem_read(c, addr)
         IN  IF val = PANIC THEN Abort(c)
             ELSE LET r == bit_shift_left_and_set_flags(c.status, val)
                  IN  mem_write([c EXCEPT !.status = r.status], addr, r.res)

\* add_next_val_to_pc_if:  jmp as u16  zero-extends the offset byte
add_next_val_to_pc_if(c, predicate) ==
    IF predicate
    THEN LET jmp == mem_read(c, c.program_counter)
         IN  IF jmp = PANIC THEN Abort(c)
             ELSE [c EXCEPT !.program_counter =
                      wrapping_add16(wrapping_add16(c.program_counter, 1), jmp)]
    ELSE c

bcc(c) == add_next_val_to_pc_if(c, ~Contains(c.status, CARRY))

bcs(c) == add_next_val_to_pc_if(c, Contains(c.status, CARRY))

beq(c) == add_next_val_to_pc_if(c, Contains(c.status, ZERO))

bmi(c) == add_next_val_to_pc_if(c, Contains(c.status, NEGATIV))

bne(c) == add_next_val_to_pc_if(c, ~Contains(c.status, ZERO))

bpl(c) == add_next_val_to_pc_if(c, ~Contains(c.status, NEGATIV))

bvc(c) == add_next_val_to_pc_if(c, ~Contains(c.status, OVERFLOW))

bvs(c) == add_next_val_to_pc_if(c, Contains(c.status, OVERFLOW))

\* bit
bit(c, mode) ==
    LET value == operand(c, mode)
        s1 == IF And8(c.register_a, value) = 0
              THEN Insert(c.status, ZERO) ELSE Remove(c.status, ZERO)
        s2 == SetFlag(s1, OVERFLOW, Shr8(value, 6) = 1)
        s3 == SetFlag(s2, NEGATIV, Shr8(value, 7) = 1)
    IN  IF value = PANIC THEN Abort(c) ELSE [c EXCEPT !.status = s3]

\* lda that clears Carry as it loads
lda_Mutant(c, mode) ==
    LET value == operand(c, mode)
    IN  IF value = PANIC THEN Abort(c)
        ELSE [c EXCEPT !.register_a = value,
                       !.status = update_zero_and_negative_flags(
                                      Remove(c.status, CARRY), value)]

\* lda
lda(c, mode) ==
    LET value == operand(c, mode)
    IN  IF value = PANIC THEN Abort(c)
        ELSE [c EXCEPT !.register_a = value,
                       !.status = update_zero_and_negative_flags(c.status, value)]

\* sta storing a 16-bit word: register_a at the address, 0x00 after it
sta_Mutant(c, mode) ==
    LET addr == get_operand_address(c, mode)
    IN  IF addr = PANIC THEN Abort(c)
        ELSE mem_write_u16(c, addr, c.register_a)

\* sta
sta(c, mode) ==
    LET addr == get_operand_address(c, mode)
    IN  IF addr = PANIC THEN Abort(c) ELSE mem_write(c, addr, c.register_a)

\* tax
tax(c) ==
    [c EXCEPT !.register_x = c.register_a,
              !.status = update_zero_and_negative_flags(c.status, c.register_a)]

\* inx
inx(c) ==
    LET x == wrapping_add8(c.register_x, 1)
    IN  [c EXCEPT !.register_x = x,
                  !.status = update_zero_and_negative_flags(c.status, x)]

-----------------------------------------------------------------------------
(* Calls.  One behaviour is one call made by a host on a CPU it prepared. *)

NoArg == [addr |-> PANIC, data |-> PANIC, mode |-> ""]

\* A program is described as head, then count bytes fill, then tail.
Desc(head, fill, count, tail) ==
    [count |-> count, fill |-> fill, head |-> head, tail |-> tail]

DescLen(d) == Len(d.head) + d.count + Len(d.tail)

DescByte(d, i) ==
    IF i < Len(d.head) THEN d.head[i + 1]
    ELSE IF i < Len(d.head) + d.count THEN d.fill
    ELSE d.tail[(i - (Len(d.head) + d.count)) + 1]

NoProgram == Desc(<< >>, 0, 0, << >>)

\* No call of load_and_run or run is in progress.
NoFrame == [cpu |-> new, engine |-> "", program |-> NoProgram]

\* The call name(arg) takes the CPU from Cpu to c and returns ret.
Call(name, arg, c, ret) ==
    /\ ctl = "ready"
    /\ pre' = Cpu
    /\ op' = [addr |-> arg.addr, data |-> arg.data, mode |-> arg.mode,
              name |-> name, ret |-> ret]
    /\ register_a' = c.register_a
    /\ register_x' = c.register_x
    /\ register_y' = c.register_y
    /\ status' = c.status
    /\ program_counter' = c.program_counter
    /\ memory' = c.memory
    /\ ctl' = IF c.panicked \/ ret = PANIC THEN "panic" ELSE "done"
    /\ frame' = frame

Handler(name, mode, c) == Call(name, [NoArg EXCEPT !.mode = mode], c, 0)

MemRead(addr) ==
    Call("mem_read", [NoArg EXCEPT !.addr = addr], Cpu, mem_read(Cpu, addr))

MemWrite(addr, data) ==
    Call("mem_write", [NoArg EXCEPT !.addr = addr, !.data = data],
         mem_write(Cpu, addr, data), 0)

MemReadU16(pos) ==
    Call("mem_read_u16", [NoArg EXCEPT !.addr = pos], Cpu, mem_read_u16(Cpu, pos))

MemWriteU16(pos, data) ==
    Call("mem_write_u16", [NoArg EXCEPT !.addr = pos, !.data = data],
         mem_write_u16(Cpu, pos, data), 0)

Load(program) ==
    Call("load", [NoArg EXCEPT !.data = program], load(Cpu, program), 0)

Reset == Call("reset", NoArg, reset(Cpu), 0)

GetOperandAddress(mode) ==
    Call("get_operand_address", [NoArg EXCEPT !.mode = mode], Cpu,
         get_operand_address(Cpu, mode))

Adc(mode) == Handler("adc", mode, adc(Cpu, mode))

AndA(mode) == Handler("and", mode, and(Cpu, mode))

Asl(mode) == Handler("asl", mode, asl(Cpu, mode))

Bit(mode) == Handler("bit", mode, bit(Cpu, mode))

Lda(mode) == Handler("lda", mode, lda(Cpu, mode))

Sta(mode) == Handler("sta", mode, sta(Cpu, mode))

Tax == Handler("tax", "NoneAddressing", tax(Cpu))

Inx == Handler("inx", "NoneAddressing", inx(Cpu))

Bcc == Handler("bcc", "NoneAddressing", bcc(Cpu))

Bcs == Handler("bcs", "NoneAddressing", bcs(Cpu))

Beq == Handler("beq", "NoneAddressing", beq(Cpu))

Bmi == Handler("bmi", "NoneAddressing", bmi(Cpu))

Bne == Handler("bne", "NoneAddressing", bne(Cpu))

Bpl == Handler("bpl", "NoneAddressing", bpl(Cpu))

Bvc == Handler("bvc", "NoneAddressing", bvc(Cpu))

Bvs == Handler("bvs", "NoneAddressing", bvs(Cpu))

-----------------------------------------------------------------------------
(* The CPUs a host can prepare: CPU::new(), the pub register fields         *)
(* assigned, bytes installed with mem_write.                                *)

\* The bytes of Image laid over a zeroed memory, then b0 and b1 at pc, pc + 1.
Prepared(image, pc, b0, b1) ==
    LET m1 == IF pc < MemSize THEN Store(image, pc, b0) ELSE image
    IN  IF pc + 1 < MemSize THEN Store(m1, pc + 1, b1) ELSE m1

InitCpu(A, X, Y, S, PC, M) ==
    /\ register_a \in A
    /\ register_x \in X
    /\ register_y \in Y
    /\ status \in S
    /\ program_counter \in PC
    /\ memory \in M
    /\ ctl = "ready"
    /\ op = [addr |-> PANIC, data |-> PANIC, mode |-> "", name |-> "new",
             ret |-> 0]
    /\ pre = new
    /\ frame = NoFrame

\* Memory contents a host installed: zero-page cells and pointers, cells of
\* the ROM region, the reset vector 0x80FE and the array's last byte 0xFFFE.
Image1 ==
    (0 :> 52) @@ (1 :> 18) @@ (2 :> 255) @@ (3 :> 255) @@ (5 :> 192)
    @@ (7 :> 64)
    @@ (127 :> 64) @@ (128 :> 128) @@ (254 :> 170) @@ (255 :> 1)
    @@ (4660 :> 127) @@ (32773 :> 129) @@ (33023 :> 3)
    @@ (65532 :> 254) @@ (65533 :> 128) @@ (65534 :> 119)

Images == {<< >>, Image1}

\* 0x00, 0x41, 0x80, 0xFF
RegSamples == {0, 65, 128, 255}

\* register_x and register_y
IndexSamples == {<<0, 0>>, <<2, 1>>}

\* none set; all set; only I, D, B, B2 set; only C, Z, V, N set
StatusSamples == {0, 255, 60, 195}

\* 0x8000; 0xFFFE, the array's last index; 0xFFFF, one past it
PcSamples == {32768, 65534, 65535}

\* the byte at the program counter: 0x00, 0x02, 0x05, 0x7F, 0x80, 0xFE, 0xFF
OperandSamples == {0, 2, 5, 127, 128, 254, 255}

\* the byte after it: 0x00, 0x80
HighSamples == {0, 128}

\* 0x0000, 0x8000, 0xFFFD, 0xFFFE, 0xFFFF
AddrSamples == {0, 32768, 65533, 65534, 65535}

\* 0x00, 0x34, 0xFF
DataSamples == {0, 52, 255}

\* 0x8000, 0x1234, 0xFFFF
WordSamples == {32768, 4660, 65535}

\* Programs: LDA #5, INX, INX, INX cut to len bytes; a long program is padded
\* with zeroes and ends, from offset 0x7FFB, in 0xEA bytes.  A program of
\* kind "vector" is a ROM image that carries the reset vector 0x8000 at its
\* offsets 0x7FFC and 0x7FFD; one of kind "code" has 0xEA there too.
MaxShortLen == 3

TailFrom == (ResetVector - RomBase) - 1

ProgBytes(len, kind) ==
    LET offsets == {j \in {0, 1, 2, 3, 4} \cup (TailFrom..(len - 1)) : j < len}
        zero    == IF kind = "vector" THEN {ResetVector - RomBase} ELSE {}
    IN  [i \in offsets \ zero |->
            CASE i = 0 -> 169
              [] i = 1 -> 5
              [] i \in {2, 3, 4} -> 232
              [] i = (ResetVector + 1) - RomBase /\ kind = "vector" -> 128
              [] OTHER -> 234]

Program(len, kind) == [data |-> ProgBytes(len, kind), len |-> len]

\* up to MaxShortLen bytes, and the lengths around 0x8000 - 4 .. 0x8000 + 1
ProgLens == (0..MaxShortLen) \cup ((RomBase - 4)..(RomBase + 1))

-----------------------------------------------------------------------------
(* Spec: one call on a prepared CPU *)

Init ==
    /\ \E image \in Images, pc \in PcSamples, b0 \in OperandSamples,
          b1 \in HighSamples :
          \E xy \in IndexSamples :
          InitCpu(RegSamples, {xy[1]}, {xy[2]}, StatusSamples, {pc},
                  {Prepared(image, pc, b0, b1)})

Next ==
    \/ \E addr \in AddrSamples : MemRead(addr)
    \/ \E addr \in AddrSamples, data \in DataSamples : MemWrite(addr, data)
    \/ \E pos \in AddrSamples : MemReadU16(pos)
    \/ \E pos \in AddrSamples, data \in WordSamples : MemWriteU16(pos, data)
    \/ \E len \in ProgLens : Load(Program(len, "vector"))
    \/ \E len \in ProgLens : Load(Program(len, "code"))
    \/ Reset
    \/ \E mode \in AddressingMode : GetOperandAddress(mode)
    \/ \E mode \in AddressingMode : Adc(mode)
    \/ \E mode \in AddressingMode : AndA(mode)
    \/ \E mode \in AddressingMode : Asl(mode)
    \/ \E mode \in AddressingMode : Bit(mode)
    \/ \E mode \in AddressingMode : Lda(mode)
    \/ \E mode \in AddressingMode : Sta(mode)
    \/ Tax
    \/ Inx
    \/ Bcc
    \/ Bcs
    \/ Beq
    \/ Bmi
    \/ Bne
    \/ Bpl
    \/ Bvc
    \/ Bvs

Spec == Init /\ [][Next]_vars

-----------------------------------------------------------------------------
(* SpecAlu: adc #m for every accumulator, operand byte and carry-in *)

InitAlu ==
    \E m \in Byte :
        InitCpu(Byte, {0}, {0}, {0, 255}, {RomBase},
                {Prepared(<< >>, RomBase, m, 0)})

NextAlu == Adc("Immediate")

SpecAlu == InitAlu /\ [][NextAlu]_vars

(* SpecFlags: update_zero_and_negative_flags, both versions, for every     *)
(* result byte and every prior status                                      *)

UpdateZeroAndNegativeFlags(result) ==
    Call("update_zero_and_negative_flags", [NoArg EXCEPT !.data = result],
         [Cpu EXCEPT !.status = update_zero_and_negative_flags(status, result)],
         0)

UpdateZeroAndNegativeFlagsPacked(result) ==
    Call("update_zero_and_negative_flags_packed",
         [NoArg EXCEPT !.data = result],
         [Cpu EXCEPT !.status =
             update_zero_and_negative_flags_packed(status, result)],
         0)

InitFlags == InitCpu({0}, {0}, {0}, Byte, {0}, {<< >>})

NextFlags ==
    \/ \E r \in Byte : UpdateZeroAndNegativeFlags(r)
    \/ \E r \in Byte : UpdateZeroAndNegativeFlagsPacked(r)

SpecFlags == InitFlags /\ [][NextFlags]_vars

-----------------------------------------------------------------------------
(* Properties *)

\* flag f (a single bit) of status byte st is set
IsSet(st, f) == (st \div f) % 2 = 1

Returned(name) == ctl = "done" /\ op.name = name

\* the operand byte the handler read: memory at the resolved address,
\* in the CPU as it was when the handler was entered
PreAddr == get_operand_address(pre, op.mode)

PreOperand == At(pre.memory, PreAddr)

\* C1: adc leaves register_a = (a + m + c) mod 256, Carry set iff
\* a + m + c > 255, Overflow set iff the signed sum of a, m and c lies
\* outside -128..127, which is iff a and m agree in bit 7 and the result
\* differs from them there; Zero and Negative are set from the new
\* accumulator.
C1_Adc ==
    Returned("adc") =>
        LET a == pre.register_a
            m == PreOperand
            c == IF IsSet(pre.status, CARRY) THEN 1 ELSE 0
            signed == Signed8(a) + Signed8(m) + c
        IN  /\ register_a = (a + m + c) % 256
            /\ IsSet(status, CARRY) <=> (a + m + c > 255)
            /\ IsSet(status, OVERFLOW) <=> (signed < -128 \/ signed > 127)
            /\ IsSet(status, OVERFLOW) <=>
                  /\ (a >= 128) <=> (m >= 128)
                  /\ (register_a >= 128) <=> ~(a >= 128)
            /\ IsSet(status, ZERO) <=> (register_a = 0)
            /\ IsSet(status, NEGATIV) <=> (register_a >= 128)

\* C1 witness: 0x40 + 0x40 with Carry clear gave 0x80 with Overflow set and
\* Carry clear (tests.rs, test_add_with_carry_overflow).
C1_Witness ==
    /\ Returned("adc")
    /\ pre.register_a = 64 /\ PreOperand = 64 /\ ~IsSet(pre.status, CARRY)
    /\ register_a = 128 /\ IsSet(status, OVERFLOW) /\ ~IsSet(status, CARRY)

Branches == {"bcc", "bcs", "beq", "bmi", "bne", "bpl", "bvc", "bvs"}

\* the condition a branch is named after, on status byte st
BranchCondition(name, st) ==
    CASE name = "bcc" -> ~IsSet(st, CARRY)
      [] name = "bcs" -> IsSet(st, CARRY)
      [] name = "beq" -> IsSet(st, ZERO)
      [] name = "bne" -> ~IsSet(st, ZERO)
      [] name = "bmi" -> IsSet(st, NEGATIV)
      [] name = "bpl" -> ~IsSet(st, NEGATIV)
      [] name = "bvc" -> ~IsSet(st, OVERFLOW)
      [] name = "bvs" -> IsSet(st, OVERFLOW)

\* C2: a taken branch entered with program_counter = p leaves
\* program_counter = (p + 1 + s) mod 65536, s the byte at p read as a signed
\* 8-bit value; an offset byte in 0x80..0xFF branches backward.
C2_BranchTarget ==
    (ctl = "done" /\ op.name \in Branches
        /\ BranchCondition(op.name, pre.status)) =>
        LET p == pre.program_counter
            s == Signed8(At(pre.memory, p))
        IN  program_counter = (p + 1 + s) % 65536

\* C3: bit leaves Zero set iff (a & v) = 0, Overflow equal to bit 6 of v,
\* Negative equal to bit 7 of v, and register_a unchanged, for every v.
C3_Bit ==
    Returned("bit") =>
        LET a == pre.register_a
            v == PreOperand
        IN  /\ IsSet(status, ZERO) <=> (And8(a, v) = 0)
            /\ IsSet(status, OVERFLOW) <=> ((v \div 64) % 2 = 1)
            /\ IsSet(status, NEGATIV) <=> ((v \div 128) % 2 = 1)
            /\ register_a = a

\* C4: mem_read(addr) and mem_write(addr, v) complete for every 16-bit
\* address, and after mem_write(addr, v) a mem_read(addr) returns v.
C4_MemoryTotal ==
    op.name \in {"mem_read", "mem_write"} =>
        /\ ctl = "done"
        /\ op.name = "mem_write" => mem_read(Cpu, op.addr) = op.data

\* C5: mem_write_u16(addr, value) followed by mem_read_u16(addr) completes
\* and returns value, the low byte stored at addr and the high byte at
\* addr + 1, for every address.
C5_RoundTrip ==
    op.name = "mem_write_u16" =>
        /\ ctl = "done"
        /\ mem_read_u16(Cpu, op.addr) = op.data
        /\ At(memory, op.addr) = op.data % 256
        /\ At(memory, op.addr + 1) = op.data \div 256

\* the offsets below len at which the program or the ROM region holds a
\* non-zero byte (everywhere else both hold 0)
LoadedOffsets(program) ==
    {i \in DOMAIN program.data : i < program.len}
    \cup {x - RomBase : x \in {y \in DOMAIN memory :
                                 y >= RomBase /\ y < RomBase + program.len}}

\* C6: for every program of at most 0x8000 bytes load completes, afterwards
\* mem_read(0x8000 + i) = bytes[i] for every i < len, and the reset vector
\* reads 0x8000 (0x00 at 0xFFFC, 0x80 at 0xFFFD).
C6_Load ==
    (op.name = "load" /\ op.data.len <= 32768) =>
        /\ ctl = "done"
        /\ \A i \in LoadedOffsets(op.data) :
              mem_read(Cpu, RomBase + i) = ProgAt(op.data, i)
        /\ mem_read_u16(Cpu, 65532) = 32768
        /\ At(memory, 65532) = 0
        /\ At(memory, 65533) = 128

\* C7: reset leaves register_a = 0, register_x = 0, status = 0 and
\* program_counter = mem_read(0xFFFC) | (mem_read(0xFFFD) << 8), leaves memory
\* and register_y unchanged, and a second reset changes nothing.
C7_Reset ==
    op.name = "reset" =>
        /\ ctl = "done"
        /\ register_a = 0
        /\ register_x = 0
        /\ status = 0
        /\ program_counter =
              At(pre.memory, 65532) + (256 * At(pre.memory, 65533))
        /\ memory = pre.memory
        /\ register_y = pre.register_y
        /\ reset(Cpu) = Cpu

\* C7 witness: a reset of a CPU whose registers and flags were all non-zero
\* took the program counter from 0x8000 to the vector 0x80FE.
C7_Witness ==
    /\ Returned("reset")
    /\ pre.register_a # 0 /\ pre.register_x # 0 /\ pre.register_y # 0
    /\ pre.status = 255
    /\ pre.program_counter = 32768
    /\ program_counter = 33022

ZeroNegativeCalls ==
    {"update_zero_and_negative_flags", "update_zero_and_negative_flags_packed"}

\* C8: update_zero_and_negative_flags(r) leaves Zero set iff r = 0, Negative
\* set iff bit 7 of r is set, and the other six status bits as they were; the
\* packed-bit version (CPU.rs) and the CPUFlags version (instructions.rs)
\* give the same status.
C8_ZeroNegative ==
    (ctl = "done" /\ op.name \in ZeroNegativeCalls) =>
        LET r == op.data
        IN  /\ IsSet(status, ZERO) <=> (r = 0)
            /\ IsSet(status, NEGATIV) <=> (r >= 128)
            /\ \A f \in {CARRY, INTERRUPT_DISABLE, DECIMAL_MODE, BREAK,
                         BREAK2, OVERFLOW} :
                  IsSet(status, f) <=> IsSet(pre.status, f)
            /\ status = update_zero_and_negative_flags_packed(pre.status, r)
            /\ status = update_zero_and_negative_flags(pre.status, r)

\* C8 witness: the CPUFlags version, called with 0x80 on a status with Zero
\* set and Negative clear, cleared Zero and set Negative.
C8_Witness ==
    /\ Returned("update_zero_and_negative_flags")
    /\ op.data = 128
    /\ pre.status = 67
    /\ status = 193

AllFlags ==
    {CARRY, ZERO, INTERRUPT_DISABLE, DECIMAL_MODE, BREAK, BREAK2, OVERFLOW,
     NEGATIV}

Instructions ==
    {"lda", "sta", "tax", "inx", "adc", "and", "asl", "bit"} \cup Branches

\* the flags an instruction is documented to touch
Touched(name) ==
    CASE name \in {"lda", "tax", "inx", "and"} -> {ZERO, NEGATIV}
      [] name = "asl" -> {CARRY, ZERO, NEGATIV}
      [] name = "adc" -> {CARRY, OVERFLOW, ZERO, NEGATIV}
      [] name = "bit" -> {ZERO, OVERFLOW, NEGATIV}
      [] OTHER -> {}

\* C9: an instruction changes no status bit outside its documented set.
C9_FlagPurity ==
    op.name \in Instructions =>
        \A f \in AllFlags \ Touched(op.name) :
            IsSet(status, f) <=> IsSet(pre.status, f)

\* C9 witness: an asl of memory changed Carry, Zero and Negative, all set
\* before it, and left the five other flags set.
C9_Witness ==
    /\ Returned("asl")
    /\ op.mode = "ZeroPage"
    /\ pre.status = 255
    /\ status = 124

\* C10: asl in accumulator mode shifts register_a and leaves memory alone;
\* in a memory mode it shifts the byte at the resolved address and leaves
\* register_a alone, and an adc absolute of that address then adds the
\* shifted byte; Carry becomes the old bit 7 and Zero/Negative are set from
\* the shifted byte.
C10_Asl ==
    Returned("asl") =>
        LET acc == op.mode = "NoneAddressing"
            old == IF acc THEN pre.register_a ELSE PreOperand
            res == (old * 2) % 256
        IN  /\ acc => register_a = res /\ memory = pre.memory
            /\ ~acc =>
                  /\ mem_read(Cpu, PreAddr) = res
                  /\ register_a = pre.register_a
                  /\ \A i \in (DOMAIN memory \cup DOMAIN pre.memory)
                                 \ {PreAddr} :
                        At(memory, i) = At(pre.memory, i)
                  /\ get_operand_address(Cpu, "Absolute") = PreAddr =>
                        adc(Cpu, "Absolute").register_a =
                           (register_a + res
                              + (IF old >= 128 THEN 1 ELSE 0)) % 256
            /\ IsSet(status, CARRY) <=> (old >= 128)
            /\ IsSet(status, ZERO) <=> (res = 0)
            /\ IsSet(status, NEGATIV) <=> (res >= 128)

\* C10 witness: asl absolute of 0x8005 turned the 0x81 there into 0x02 with
\* Carry set, the accumulator 0x41 unchanged.
C10_Witness ==
    /\ Returned("asl")
    /\ op.mode = "Absolute"
    /\ PreAddr = 32773
    /\ At(pre.memory, 32773) = 129
    /\ At(memory, 32773) = 2
    /\ IsSet(status, CARRY)
    /\ register_a = 65

-----------------------------------------------------------------------------
(* The addressing-mode resolver *)

Resolved(modes) ==
    ctl = "done" /\ op.name = "get_operand_address" /\ op.mode \in modes

\* the byte at the program counter when the resolver was entered
PreByte == At(pre.memory, pre.program_counter)

\* C14: ZeroPage_X and ZeroPage_Y return (mem_read(program_counter) + x)
\* mod 256, respectively + y: the sum wraps inside the zero page, the result
\* is always in 0..0xFF, and base 0xFF with x = 2 resolves to 0x0001.
C14_ZeroPageIndexed ==
    /\ Resolved({"ZeroPage_X"}) =>
          /\ op.ret = (PreByte + pre.register_x) % 256
          /\ op.ret \in 0..255
    /\ Resolved({"ZeroPage_Y"}) =>
          /\ op.ret = (PreByte + pre.register_y) % 256
          /\ op.ret \in 0..255
    /\ (Resolved({"ZeroPage_X"}) /\ PreByte = 255 /\ pre.register_x = 2) =>
          op.ret = 1

\* C14 witness: base 0xFF with x = 2 resolved to 0x0001.
C14_Witness ==
    /\ Resolved({"ZeroPage_X"})
    /\ PreByte = 255 /\ pre.register_x = 2 /\ op.ret = 1

\* C15: Indirect_X returns mem_read(ptr) | (mem_read((ptr + 1) mod 256) << 8)
\* with ptr = (mem_read(program_counter) + x) mod 256: pointer and pointer
\* increment both wrap inside the zero page, so for ptr = 0xFF the high byte
\* comes from address 0x0000.
C15_IndirectX ==
    Resolved({"Indirect_X"}) =>
        LET ptr == (PreByte + pre.register_x) % 256
        IN  /\ op.ret = At(pre.memory, ptr)
                          + (256 * At(pre.memory, (ptr + 1) % 256))
            /\ ptr = 255 => op.ret \div 256 = At(pre.memory, 0)

\* C15 witness: the pointer was 0xFF, the low byte 0x01 came from 0x00FF and
\* the high byte 0x34 from 0x0000.
C15_Witness ==
    /\ Resolved({"Indirect_X"})
    /\ (PreByte + pre.register_x) % 256 = 255
    /\ At(pre.memory, 0) = 52 /\ At(pre.memory, 255) = 1
    /\ op.ret = 13313

\* C16: Indirect_Y returns ((mem_read(b) | mem_read((b + 1) mod 256) << 8)
\* + y) mod 65536 with b = mem_read(program_counter): the pointer increment
\* wraps inside the zero page and the addition of y wraps at 16 bits.
C16_IndirectY ==
    Resolved({"Indirect_Y"}) =>
        LET b == PreByte
            deref_base == At(pre.memory, b)
                          + (256 * At(pre.memory, (b + 1) % 256))
        IN  op.ret = (deref_base + pre.register_y) % 65536

\* C16 witness: the pointer at 0x02 held 0xFFFF and y = 1 wrapped it to
\* 0x0000.
C16_Witness ==
    /\ Resolved({"Indirect_Y"})
    /\ PreByte = 2 /\ At(pre.memory, 2) = 255 /\ At(pre.memory, 3) = 255
    /\ pre.register_y = 1 /\ op.ret = 0

\* C17: for every mode other than NoneAddressing and every program_counter,
\* x, y and memory contents, get_operand_address returns a 16-bit address
\* without aborting.
C17_ResolverTotal ==
    (ctl # "ready" /\ op.name = "get_operand_address"
        /\ op.mode # "NoneAddressing") =>
        /\ ctl = "done"
        /\ op.ret \in 0..65535

-----------------------------------------------------------------------------
(* load_and_run and the loop of run() (CPU.rs) *)

\* self.program_counter += n  on a u16, with overflow checks: the sum, or
\* PANIC ("attempt to add with overflow")
add_assign16(pc, n) == IF pc + n < U16 THEN pc + n ELSE PANIC

\* CPU.rs, fn lda(&mut self, value: u8)
lda_packed(c, value) ==
    [c EXCEPT !.register_a = value,
              !.status = update_zero_and_negative_flags_packed(c.status, value)]

\* CPU.rs, fn tax(&mut self)
tax_packed(c) ==
    [c EXCEPT !.register_x = c.register_a,
              !.status = update_zero_and_negative_flags_packed(c.status,
                                                               c.register_a)]

\* inx that leaves the status byte alone
inx_packed_Mutant(c) ==
    [c EXCEPT !.register_x = wrapping_add8(c.register_x, 1)]

\* CPU.rs, fn inx(&mut self)
inx_packed(c) ==
    LET x == wrapping_add8(c.register_x, 1)
    IN  [c EXCEPT !.register_x = x,
                  !.status = update_zero_and_negative_flags_packed(c.status, x)]

\* The outcome of one turn of the loop: the CPU it leaves and what happened,
\* "lda", "tax", "inx" (the loop goes on), "brk" (run returned), or the panic
\* that ended it: "todo", "index out of bounds", "overflow".
Turn(c, event) == [cpu |-> c, event |-> event]

\* the 0xA9 arm with the second  self.program_counter += 1  left out
arm_lda_Mutant(c) ==
    LET param == mem_read(c, c.program_counter)
    IN  IF param = PANIC THEN Turn(Abort(c), "index out of bounds")
        ELSE Turn(lda_packed(c, param), "lda")

\* 0xA9 => { let param = self.memory[self.program_counter as usize];
\*           self.program_counter += 1; self.lda(param); }
arm_lda(c) ==
    LET param == mem_read(c, c.program_counter)
        pc2   == add_assign16(c.program_counter, 1)
    IN  IF param = PANIC THEN Turn(Abort(c), "index out of bounds")
        ELSE IF pc2 = PANIC THEN Turn(Abort(c), "overflow")
        ELSE Turn(lda_packed([c EXCEPT !.program_counter = pc2], param),
                  "lda")

\* the 0x00 arm setting bit 4 instead of bit 5
arm_brk_Mutant(c) == Turn([c EXCEPT !.status = Or8(c.status, 16)], "brk")

\* 0x00 => { self.status |= 0b0010_0000; return; }
arm_brk(c) == Turn([c EXCEPT !.status = Or8(c.status, 32)], "brk")

\* the last arm doing nothing and letting the loop go on
arm_todo_Mutant(c) == Turn(c, "todo")

\* _ => todo!()
arm_todo(c) == Turn(Abort(c), "todo")

\* the loop with the 0xAA arm undoing the  self.program_counter += 1  of the
\* fetch
run_turn_Mutant(c) ==
    LET opscode == mem_read(c, c.program_counter)
        pc1     == add_assign16(c.program_counter, 1)
        c1      == [c EXCEPT !.program_counter = pc1]
    IN  IF opscode = PANIC THEN Turn(Abort(c), "index out of bounds")
        ELSE IF pc1 = PANIC THEN Turn(Abort(c), "overflow")
        ELSE CASE opscode = 169 -> arm_lda(c1)
               [] opscode = 170 -> Turn(tax_packed(c), "tax")
               [] opscode = 232 -> Turn(inx_packed(c1), "inx")
               [] opscode = 0   -> arm_brk(c1)
               [] OTHER         -> arm_todo(c1)

\* one turn of  loop { ... }  in run()
run_turn(c) ==
    LET opscode == mem_read(c, c.program_counter)
        pc1     == add_assign16(c.program_counter, 1)
        c1      == [c EXCEPT !.program_counter = pc1]
    IN  IF opscode = PANIC THEN Turn(Abort(c), "index out of bounds")
        ELSE IF pc1 = PANIC THEN Turn(Abort(c), "overflow")
        ELSE CASE opscode = 169 -> arm_lda(c1)
               [] opscode = 170 -> Turn(tax_packed(c1), "tax")
               [] opscode = 232 -> Turn(inx_packed(c1), "inx")
               [] opscode = 0   -> arm_brk(c1)
               [] OTHER         -> arm_todo(c1)

\* load_and_run resetting the CPU before it loads the program
load_and_run_Mutant(c, program) ==
    LET c1 == reset(c)
    IN  IF c1.panicked THEN c1 ELSE load(c1, program)

\* load_and_run up to the call of run(): self.load(program); self.reset();
load_and_run(c, program) ==
    LET c1 == load(c, program)
    IN  IF c1.panicked THEN c1 ELSE reset(c1)

-----------------------------------------------------------------------------
(* The table-driven engine that dispatches the handlers of instructions.rs. *)
(* Its loop and its opcode table are not part of the sources at hand; they  *)
(* follow section 4.6 of the specification, the opcodes are those of the    *)
(* programs in tests.rs and the 6502's encodings of the other handlers.     *)

\* Opcode::new(code, assembly, len, cycles, mode), without the cycle count
Descriptor(name, len, mode) == [len |-> len, mode |-> mode, name |-> name]

OpcodeTable ==
    (0 :> Descriptor("brk", 1, "NoneAddressing"))
    @@ (105 :> Descriptor("adc", 2, "Immediate"))
    @@ (109 :> Descriptor("adc", 3, "Absolute"))
    @@ (41 :> Descriptor("and", 2, "Immediate"))
    @@ (10 :> Descriptor("asl", 1, "NoneAddressing"))
    @@ (14 :> Descriptor("asl", 3, "Absolute"))
    @@ (36 :> Descriptor("bit", 2, "ZeroPage"))
    @@ (169 :> Descriptor("lda", 2, "Immediate"))
    @@ (165 :> Descriptor("lda", 2, "ZeroPage"))
    @@ (133 :> Descriptor("sta", 2, "ZeroPage"))
    @@ (170 :> Descriptor("tax", 1, "NoneAddressing"))
    @@ (232 :> Descriptor("inx", 1, "NoneAddressing"))
    @@ (144 :> Descriptor("bcc", 2, "NoneAddressing"))
    @@ (176 :> Descriptor("bcs", 2, "NoneAddressing"))
    @@ (240 :> Descriptor("beq", 2, "NoneAddressing"))
    @@ (48 :> Descriptor("bmi", 2, "NoneAddressing"))
    @@ (208 :> Descriptor("bne", 2, "NoneAddressing"))
    @@ (16 :> Descriptor("bpl", 2, "NoneAddressing"))
    @@ (80 :> Descriptor("bvc", 2, "NoneAddressing"))
    @@ (112 :> Descriptor("bvs", 2, "NoneAddressing"))

\* step 5: invoke the matching handler, passing the descriptor's mode
execute(c, d) ==
    CASE d.name = "adc" -> adc(c, d.mode)
      [] d.name = "and" -> and(c, d.mode)
      [] d.name = "asl" -> asl(c, d.mode)
      [] d.name = "bit" -> bit(c, d.mode)
      [] d.name = "lda" -> lda(c, d.mode)
      [] d.name = "sta" -> sta(c, d.mode)
      [] d.name = "tax" -> tax(c)
      [] d.name = "inx" -> inx(c)
      [] d.name = "bcc" -> bcc(c)
      [] d.name = "bcs" -> bcs(c)
      [] d.name = "beq" -> beq(c)
      [] d.name = "bmi" -> bmi(c)
      [] d.name = "bne" -> bne(c)
      [] d.name = "bpl" -> bpl(c)
      [] d.name = "bvc" -> bvc(c)
      [] d.name = "bvs" -> bvs(c)

\* step 6, on the CPU c2 the handler left: if the handler did not itself
\* change program_counter, advance it by the descriptor's length - 1
advance(c2, pc1, d) ==
    IF c2.panicked THEN Turn(c2, "index out of bounds")
    ELSE IF c2.program_counter # pc1 THEN Turn(c2, d.name)
    ELSE IF add_assign16(pc1, d.len - 1) = PANIC
    THEN Turn(Abort(c2), "overflow")
    ELSE Turn([c2 EXCEPT !.program_counter = add_assign16(pc1, d.len - 1)],
              d.name)

\* steps 3 to 6, on the CPU c1 whose program_counter is past the opcode
dispatch(c1, opscode) ==
    IF opscode \notin DOMAIN OpcodeTable THEN Turn(Abort(c1), "todo")
    ELSE IF OpcodeTable[opscode].name = "brk" THEN Turn(c1, "brk")
    ELSE advance(execute(c1, OpcodeTable[opscode]), c1.program_counter,
                 OpcodeTable[opscode])

\* one iteration of the loop body, steps 1 to 6
engine_turn(c) ==
    IF mem_read(c, c.program_counter) = PANIC
    THEN Turn(Abort(c), "index out of bounds")
    ELSE IF add_assign16(c.program_counter, 1) = PANIC
    THEN Turn(Abort(c), "overflow")
    ELSE dispatch([c EXCEPT !.program_counter =
                               add_assign16(c.program_counter, 1)],
                  mem_read(c, c.program_counter))

-----------------------------------------------------------------------------
(* Actions of load_and_run *)

\* The CPU becomes c.
Becomes(c) ==
    /\ register_a' = c.register_a
    /\ register_x' = c.register_x
    /\ register_y' = c.register_y
    /\ status' = c.status
    /\ program_counter' = c.program_counter
    /\ memory' = c.memory

\* program: Vec<u8>, the count bytes fill held as one run
ProgramOf(d) ==
    LET run   == IF d.count > 0 /\ d.fill # 0
                 THEN FillKey :> <<Len(d.head), Len(d.head) + d.count - 1,
                                   d.fill>>
                 ELSE << >>
        ends  == (0..(Len(d.head) - 1))
                 \cup ((Len(d.head) + d.count)..(DescLen(d) - 1))
    IN  [data |-> [i \in {j \in ends : DescByte(d, j) # 0} |->
                      DescByte(d, i)] @@ run,
         len |-> DescLen(d)]

\* cpu.load_and_run(program), up to the first turn of the loop of run()
LoadAndRun(d, engine) ==
    /\ ctl = "ready"
    /\ \E c \in {load_and_run(Cpu, ProgramOf(d))} :
           /\ Becomes(c)
           /\ ctl' = IF c.panicked THEN "panic" ELSE "running"
    /\ pre' = Cpu
    /\ op' = [addr |-> PANIC, data |-> PANIC, mode |-> "",
              name |-> "load_and_run", ret |-> 0]
    /\ frame' = [cpu |-> Cpu, engine |-> engine, program |-> d]

\* cpu.run() called by the host on the CPU as it is
Run ==
    /\ ctl = "ready"
    /\ Becomes(Cpu)
    /\ ctl' = "running"
    /\ pre' = Cpu
    /\ op' = [addr |-> PANIC, data |-> PANIC, mode |-> "", name |-> "run",
              ret |-> 0]
    /\ frame' = [cpu |-> Cpu, engine |-> "match", program |-> NoProgram]

\* one turn of the loop of run(): op.addr is the address the opcode was
\* fetched from, op.data the opcode, op.name what the turn did
RunTurn ==
    /\ ctl = "running"
    /\ frame.engine = "match"
    /\ \E t \in {run_turn(Cpu)} :
           /\ Becomes(t.cpu)
           /\ ctl' = IF t.cpu.panicked THEN "panic"
                     ELSE IF t.event = "brk" THEN "halted"
                     ELSE "running"
           /\ op' = [addr |-> program_counter,
                     data |-> mem_read(Cpu, program_counter), mode |-> "",
                     name |-> t.event, ret |-> 0]
    /\ pre' = Cpu
    /\ frame' = frame

\* one iteration of the table-driven loop, recorded as RunTurn records it
EngineTurn ==
    /\ ctl = "running"
    /\ frame.engine = "table"
    /\ \E t \in {engine_turn(Cpu)} :
           /\ Becomes(t.cpu)
           /\ ctl' = IF t.cpu.panicked THEN "panic"
                     ELSE IF t.event = "brk" THEN "halted"
                     ELSE "running"
           /\ op' = [addr |-> program_counter,
                     data |-> mem_read(Cpu, program_counter), mode |-> "",
                     name |-> t.event, ret |-> 0]
    /\ pre' = Cpu
    /\ frame' = frame

\* A CPU that has been in use: registers, flags and memory hold leftovers.
Used ==
    [memory |-> Image1, panicked |-> FALSE, program_counter |-> 4660,
     register_a |-> 65, register_x |-> 2, register_y |-> 1, status |-> 255]

\* The same with program_counter at a byte that holds 0x00 and status 0xC3.
UsedAtBrk == [Used EXCEPT !.program_counter = 4, !.status = 195]

\* LDA #v, TAX, INX k times, BRK
Chain(v, k) == Desc(<<169, v, 170>>, 232, k, <<0>>)

MaxK == 3

\* the k for which the BRK of Chain(v, k) lies at 0xFFFC
TopK == (ResetVector - RomBase) - 3

\* every byte v with a few INX
Chains == {Chain(v, k) : v \in Byte, k \in 0..MaxK}

\* the chains whose BRK lies at the reset vector and one byte past it, and
\* the chain of 0x8001 bytes
LongChains == {Chain(254, k) : k \in {TopK, TopK + 1, TopK + 4}}

\* BRK, LDA #, TAX, INX, and three bytes run() has no arm for
OpAlphabet == {0, 169, 170, 232, 2, 128, 255}

MaxBody == 3

RECURSIVE SeqsUpTo(_, _)
SeqsUpTo(S, n) ==
    IF n = 0 THEN {<< >>}
    ELSE LET shorter == SeqsUpTo(S, n - 1)
         IN  shorter \cup {Append(q, b) : q \in shorter, b \in S}

Bodies == {Desc(h, 0, 0, << >>) : h \in SeqsUpTo(OpAlphabet, MaxBody)}

\* programs that fill the ROM region up to its last or next-to-last byte with
\* LDA #0xA9 or with INX, after a TAX or without one: the opcodes of the
\* LDA lie at the odd or at the even offsets
Fills ==
    {Desc(h, f, (MemSize - RomBase) - (Len(h) + short), << >>) :
        h \in {<< >>, <<170>>}, f \in {169, 232}, short \in {0, 1}}

MaxOver == 1

\* programs of 0x8000 bytes and more
Oversized == {Desc(<< >>, 232, RomBase + j, << >>) : j \in 0..MaxOver}

RunPrograms == Chains \cup Bodies \cup Oversized

\* Programs for the table-driven engine: instructions that leave the flags a
\* branch looks at in each state, then one instruction, then INX INX BRK.
FlagPrefixes ==
    {<< >>, <<169, 0>>, <<169, 128>>, <<169, 255, 105, 1>>,
     <<169, 127, 105, 1>>}

BranchOpcodes == {144, 176, 240, 48, 208, 16, 80, 112}

OffsetSamples == {0, 2, 127, 128, 255}

OneInstruction ==
    {<<b, off>> : b \in BranchOpcodes, off \in OffsetSamples}
    \cup {<<105, 64>>, <<109, 9, 128>>, <<41, 15>>, <<10>>, <<14, 9, 128>>,
          <<36, 0>>, <<169, 7>>, <<165, 16>>, <<133, 16>>, <<170>>, <<232>>,
          <<2>>}

TablePrograms ==
    {Desc(f \o i \o <<232, 232, 0>>, 0, 0, << >>) :
        f \in FlagPrefixes, i \in OneInstruction}

\* the programs run up to the top of memory
TopPrograms == RunPrograms \cup LongChains \cup Fills

-----------------------------------------------------------------------------
(* SpecRun: load_and_run on a new CPU or on a used one *)

InitRun ==
    \E c \in {new, Used, UsedAtBrk} :
        InitCpu({c.register_a}, {c.register_x}, {c.register_y}, {c.status},
                {c.program_counter}, {c.memory})

NextRun ==
    \/ \E d \in RunPrograms : LoadAndRun(d, "match")
    \/ \E d \in TablePrograms \cup Oversized : LoadAndRun(d, "table")
    \/ Run
    \/ RunTurn
    \/ EngineTurn

SpecRun == InitRun /\ [][NextRun]_vars

-----------------------------------------------------------------------------
(* SpecTop: load_and_run on a new CPU, with the programs that reach the top *)
(* of memory                                                                *)

InitTop == InitCpu({0}, {0}, {0}, {0}, {0}, {<< >>})

NextTop ==
    \/ \E d \in TopPrograms : LoadAndRun(d, "match")
    \/ RunTurn

SpecTop == InitTop /\ [][NextTop]_vars

-----------------------------------------------------------------------------
(* Properties of run() and load_and_run *)

\* op describes a turn of the loop
Turned ==
    /\ ctl \in {"running", "halted", "panic"}
    /\ op.name \notin {"load_and_run", "run"}

\* the registers A, X, Y, the status byte and memory are as before the turn
SameButPc ==
    /\ register_a = pre.register_a
    /\ register_x = pre.register_x
    /\ register_y = pre.register_y
    /\ status = pre.status
    /\ memory = pre.memory

\* the opcodes run() of CPU.rs has an arm for
MatchArms == {0, 169, 170, 232}

\* C11: when run() fetches an opcode byte it does not dispatch, the run
\* aborts at that instruction: no handler runs, A, X, Y, the status flags and
\* memory are as they were just before the fetch, and execution does not go
\* on as if the byte were a no-op.
C11_UnrecognizedOpcode ==
    (Turned /\ frame.engine = "match" /\ op.data # PANIC
        /\ op.data \notin MatchArms) =>
        /\ ctl = "panic"
        /\ op.name = "todo"
        /\ SameButPc

\* C11 witness: after LDA #0xFF the byte 0x02 at 0x8002 aborted the run with
\* the accumulator and the Negative flag as LDA left them, on a CPU whose
\* memory and register_y held leftovers.
C11_Witness ==
    /\ Turned /\ frame.engine = "match"
    /\ ctl = "panic" /\ op.name = "todo" /\ op.data = 2 /\ op.addr = 32770
    /\ register_a = 255 /\ status = 128 /\ register_y = 1
    /\ At(memory, 4660) = 127

MatchLen(name) == IF name = "lda" THEN 2 ELSE 1

C18_OversizedRejected ==
    DescLen(frame.program) > U16 - RomBase =>
        /\ ctl = "panic"
        /\ op.name = "load_and_run"
        /\ Cpu = frame.cpu
        /\ At(memory, ResetVector) = At(frame.cpu.memory, ResetVector)
        /\ At(memory, ResetVector + 1) = At(frame.cpu.memory, ResetVector + 1)

\* C18 witness: a program of 0x8001 bytes given to a CPU in use; the call
\* aborted with the registers and the old reset vector 0x80FE in place.
C18_Witness ==
    /\ ctl = "panic" /\ op.name = "load_and_run"
    /\ DescLen(frame.program) = RomBase + 1
    /\ frame.cpu = Used
    /\ register_a = 65 /\ register_x = 2 /\ status = 255
    /\ program_counter = 4660 /\ At(memory, ResetVector) = 254

\* C19: in every state load_and_run reaches on a newly constructed CPU,
\* program_counter is a valid offset into the backing memory whenever the
\* engine fetches an opcode or reads an operand byte through it: no fetch and
\* no operand read indexes outside memory, and no increment of
\* program_counter overflows 16 bits.
C19_PcValid ==
    /\ program_counter \in 0..65535
    /\ ctl = "running" => program_counter < MemSize
    /\ Turned =>
          /\ op.name \notin {"index out of bounds", "overflow"}
          /\ op.addr < MemSize /\ op.data # PANIC
          /\ op.name = "lda" => op.addr + 1 < MemSize

\* C19 witness: an LDA at 0xFFFB took its operand from 0xFFFC, and the next
\* fetch, at 0xFFFD, found the reset vector's high byte 0x80, which run() has
\* no arm for.
C19_Witness ==
    /\ Turned /\ ctl = "panic" /\ op.name = "todo"
    /\ op.addr = 65533 /\ op.data = 128 /\ program_counter = 65534
    /\ pre.register_a = 0

IsChain(d) ==
    /\ Len(d.head) = 3 /\ d.head[1] = 169 /\ d.head[3] = 170
    /\ d.fill = 232 /\ d.tail = <<0>>

\* what C20 says of the program LDA #v, TAX, INX k times, BRK
ChainResult(v, k) ==
    /\ ctl # "panic"
    /\ ctl = "halted" =>
          /\ register_a = v
          /\ register_x = (v + k) % 256
          /\ ((status \div 2) % 2 = 1) <=> (register_x = 0)
          /\ ((status \div 128) % 2 = 1) <=> (register_x >= 128)

\* C20 as stated: for every byte v and every k >= 0, load_and_run of
\* LDA #v, TAX, INX k times, BRK on a new CPU halts with register_a = v,
\* register_x = (v + k) mod 256, Zero set iff register_x = 0 and Negative
\* set iff bit 7 of register_x is set.
C20_ChainAnyLength ==
    IsChain(frame.program) =>
        ChainResult(frame.program.head[2], frame.program.count)

\* C20, amended: the same for every byte v and every k with k + 4 <= 0x7FFD,
\* that is, for the chains that end before or at 0xFFFC, where load() puts
\* the reset vector.
C20_Chain ==
    (IsChain(frame.program) /\ frame.program.count <= TopK) =>
        ChainResult(frame.program.head[2], frame.program.count)

\* C20 witness: v = 0xFE with the longest such chain, 0x7FF9 INX, halted with
\* register_x = 0xF7 and Negative set.
C20_Witness ==
    /\ ctl = "halted" /\ IsChain(frame.program)
    /\ frame.program.count = TopK /\ frame.program.head[2] = 254
    /\ register_a = 254 /\ register_x = 247 /\ (status \div 128) % 2 = 1

-----------------------------------------------------------------------------
(* SpecEngine: programs of the handlers of instructions.rs, run by the      *)
(* table-driven engine on a new CPU                                         *)

\* LDA #a, ASL A, ADC #b, BRK (tests.rs, test_asl_adc_carry)
ShiftAdd(a, b) == Desc(<<169, a, 10, 105, b, 0>>, 0, 0, << >>)

ShiftAdds == {ShiftAdd(a, b) : a \in Byte, b \in Byte}

\* the zero-page cells the sum is stored to
RLo == 16

RHi == 17

\* LDA #lo1, ADC #lo2, STA r_lo, LDA #hi1, ADC #hi2, STA r_hi, BRK
MultiByteAdd(lo1, lo2, hi1, hi2) ==
    Desc(<<169, lo1, 105, lo2, 133, RLo, 169, hi1, 105, hi2, 133, RHi, 0>>,
         0, 0, << >>)

\* 0x00, 0x01, 0x40, 0x7F, 0x80, 0x81, 0xC8, 0xFE, 0xFF
AddendSamples == {0, 1, 64, 127, 128, 129, 200, 254, 255}

MultiByteAdds ==
    {MultiByteAdd(lo1, lo2, hi1, hi2) :
        lo1 \in AddendSamples, lo2 \in AddendSamples,
        hi1 \in AddendSamples, hi2 \in AddendSamples}

InitEngine == InitCpu({0}, {0}, {0}, {0}, {0}, {<< >>})

NextEngine ==
    \/ ctl = "ready" /\ \E d \in ShiftAdds : LoadAndRun(d, "table")
    \/ ctl = "ready" /\ \E d \in MultiByteAdds : LoadAndRun(d, "table")
    \/ EngineTurn

SpecEngine == InitEngine /\ [][NextEngine]_vars

-----------------------------------------------------------------------------
(* Properties of programs run by the table-driven engine *)

IsShiftAdd(d) ==
    /\ Len(d.head) = 6 /\ d.count = 0 /\ d.tail = << >>
    /\ d.head[1] = 169 /\ d.head[3] = 10 /\ d.head[4] = 105 /\ d.head[6] = 0

IsMultiByteAdd(d) ==
    /\ Len(d.head) = 13 /\ d.count = 0 /\ d.tail = << >>
    /\ d.head[1] = 169 /\ d.head[3] = 105 /\ d.head[5] = 133
    /\ d.head[7] = 169 /\ d.head[9] = 105 /\ d.head[11] = 133

-----------------------------------------------------------------------------
(* SpecLive: run() called on a CPU the host prepared, the loop taking its   *)
(* turns for as long as it has not returned or aborted                      *)

\* the array holding one byte from index lo to its end
Filled(lo, byte) == FillKey :> <<lo, MemSize - 1, byte>>

\* where the memories filled at the top begin: 0xF000
TopFrom == 61440

\* memory all 0x00; with a few bytes installed; from 0xF000 all INX, all TAX,
\* all 0xA9 (LDA #0xA9 wherever the fetch starts), all 0x02, which run() has
\* no arm for; and all INX but for a BRK at 0x0007 and an LDA at 0x0009
LiveMemories ==
    {<< >>, Image1, Filled(TopFrom, 232), Filled(TopFrom, 170),
     Filled(TopFrom, 169), Filled(TopFrom, 2),
     (7 :> 0) @@ (9 :> 169) @@ Filled(0, 232)}

\* 0x0000, 0x0008, 0xF000, 0xFFFD, 0xFFFE, 0xFFFF
LivePcs == {0, 8, TopFrom, 65533, 65534, 65535}

InitLive == InitCpu({65}, {2}, {1}, {0, 255}, LivePcs, LiveMemories)

NextLive ==
    \/ Run
    \/ RunTurn

\* run() is sequential code: while the loop has not ended, its next turn is
\* taken.
SpecLive == InitLive /\ [][NextLive]_vars /\ WF_vars(RunTurn)

\* C23: from every memory content and every starting program_counter, each
\* call of run() eventually stops, by halting at a BRK or by aborting, and
\* every instruction run() executes leaves program_counter greater than it
\* was: no execution runs forever.
C23_RunTerminates ==
    /\ (ctl = "running") ~> (ctl \in {"halted", "panic"})
    /\ [][(ctl = "running" /\ op'.name \in {"lda", "tax", "inx", "brk", "todo"})
             => program_counter' > program_counter]_vars

\* C23 witness: run() started at 0x0008 in a memory that holds INX from
\* there on (but for one LDA) executed them all and stopped at the fetch
\* from 0xFFFF.
C23_Witness ==
    /\ ctl = "panic" /\ op.name = "index out of bounds" /\ op.addr = 65535
    /\ frame.cpu.program_counter = 8 /\ At(frame.cpu.memory, 65534) = 232
    /\ pre.program_counter = 65535

-----------------------------------------------------------------------------
(* The memory frame of the handlers *)

\* every byte of memory outside the addresses S is as it was before the call
MemorySameOutside(S) ==
    \A i \in ((DOMAIN memory \cup DOMAIN pre.memory) \ {FillKey}) \ S :
        At(memory, i) = At(pre.memory, i)

\* the handlers that only read memory
ReadOnly ==
    {"lda", "and", "adc", "bit", "tax", "inx"} \cup Branches

\* C24: sta and memory-mode asl write exactly one byte, the one at the
\* resolved operand address, and change no other byte of memory; lda, and,
\* adc, bit, tax, inx, accumulator-mode asl and the eight branches leave every
\* byte unchanged; sta also leaves register_a, register_x, register_y and
\* program_counter unchanged.
C24_MemoryFrame ==
    /\ op.name = "sta" =>
          /\ MemorySameOutside({PreAddr})
          /\ ctl = "done" => At(memory, PreAddr) = pre.register_a
          /\ register_a = pre.register_a
          /\ register_x = pre.register_x
          /\ register_y = pre.register_y
          /\ program_counter = pre.program_counter
    /\ (op.name = "asl" /\ op.mode # "NoneAddressing") =>
          /\ MemorySameOutside({PreAddr})
          /\ ctl = "done" => At(memory, PreAddr) = (2 * PreOperand) % 256
    /\ (op.name = "asl" /\ op.mode = "NoneAddressing") => memory = pre.memory
    /\ op.name \in ReadOnly =>
          /\ memory = pre.memory
          /\ MemorySameOutside({})

\* C24 witness: sta zero page stored the accumulator 0x41 over the 0xC0 at
\* 0x0005 and left its neighbour at 0x0007 and the registers as they were.
C24_Witness ==
    /\ Returned("sta") /\ op.mode = "ZeroPage" /\ PreAddr = 5
    /\ At(pre.memory, 5) = 192 /\ At(memory, 5) = 65 /\ At(memory, 7) = 64
    /\ register_a = 65 /\ register_x = 2 /\ register_y = 1

-----------------------------------------------------------------------------
(* SpecReuse: load_and_run on a new CPU, and once more on the CPU the first *)
(* call left when it returned                                               *)

\* run(): the turns of the loop up to the one that ends it
RECURSIVE run(_)
run_from(t) ==
    IF t.cpu.panicked \/ t.event = "brk" THEN t ELSE run(t.cpu)

run(c) == run_from(run_turn(c))

\* let mut cpu = CPU::new(); cpu.load_and_run(program): the CPU it leaves and
\* how it ended
OnNewCpu(d) ==
    IF load_and_run(new, ProgramOf(d)).panicked
    THEN Turn(load_and_run(new, ProgramOf(d)), "load")
    ELSE run(load_and_run(new, ProgramOf(d)))

\* cpu.load_and_run(program) on the CPU an earlier call, made on a new CPU,
\* returned from
LoadAndRunAgain(d) ==
    /\ ctl = "halted"
    /\ frame.engine = "match"
    /\ frame.cpu = new
    /\ \E c \in {load_and_run(Cpu, ProgramOf(d))} :
           /\ Becomes(c)
           /\ ctl' = IF c.panicked THEN "panic" ELSE "running"
    /\ pre' = Cpu
    /\ op' = [addr |-> PANIC, data |-> PANIC, mode |-> "",
              name |-> "load_and_run", ret |-> 0]
    /\ frame' = [cpu |-> Cpu, engine |-> "match", program |-> d]

InitReuse == InitCpu({0}, {0}, {0}, {0}, {0}, {<< >>})

NextReuse ==
    \/ ctl = "ready" /\ \E d \in Bodies : LoadAndRun(d, "match")
    \/ ctl = "halted" /\ \E d \in Bodies : LoadAndRunAgain(d)
    \/ RunTurn

SpecReuse == InitReuse /\ [][NextReuse]_vars

\* C25: for every program p, load_and_run(p) on a CPU that has completed a
\* load_and_run of another program ends in the same outcome, halted or
\* aborted, with the same register_a, register_x, status and program_counter
\* as load_and_run(p) on a new CPU: the result does not depend on what the
\* earlier run left behind.
C25_ReuseIndependent ==
    (ctl \in {"halted", "panic"} /\ frame.cpu # new) =>
        /\ (ctl = "panic") <=> OnNewCpu(frame.program).cpu.panicked
        /\ register_a = OnNewCpu(frame.program).cpu.register_a
        /\ register_x = OnNewCpu(frame.program).cpu.register_x
        /\ status = OnNewCpu(frame.program).cpu.status
        /\ program_counter = OnNewCpu(frame.program).cpu.program_counter

=============================================================================
